---- MODULE Spec2Model ----
(***************************************************************************)
(* Model of aind_codeocean_utils: the register -> run -> capture job of    *)
(* codeocean_job.py (v1) and codeocean_job_v2.py (v2), with the two        *)
(* polling loops (data-asset availability, computation status).            *)
(*                                                                         *)
(* One job invocation is a sequential program; the remote platform is the  *)
(* environment and answers every call nondeterministically.  Every remote  *)
(* call and every time.sleep is appended to `log` in program order.        *)
(***************************************************************************)
EXTENDS Integers, Sequences, FiniteSets, TLC

(* ------------------------------ bounds --------------------------------- *)
\* caller-supplied data assets of a run request: ids 1..n, n <= MaxAssets
MaxAssets == 1
\* largest pause interval / timeout handed to a polling loop by a caller
MaxInterval == 2
MaxTimeout == 3
\* get_computation polls explored when no timeout ends the loop
MaxPolls == 3
\* inside a job a fresh asset becomes visible within MaxLag polls, or never
MaxLag == 1
\* longest tag list handed to add_data_level_metadata
MaxTags == 2
\* applications of add_data_level_metadata to one asset's tags and metadata
MaxApplications == 2
\* invocations of a job on the same object, config objects and defaults
MaxInvocations == 2
\* data assets handed to APIHandler.update_tags
MaxUpdated == 2
\* tags on one of those data assets
MaxAssetTags == 2

(* -------------------------- program constants -------------------------- *)
\* wait_for_data_availability(timeout_seconds=300, pause_interval=10)
DefaultTimeoutSeconds == 300
DefaultPauseInterval == 10
\* pause_interval of the run configuration the repository's tests use
ScenarioPauseInterval == 400

(* ------------------------------ values --------------------------------- *)
\* Python None for an optional integer; a body without an "id" field
None == -1
NoId == 0
\* ids the remote hands out for created assets and for the computation
RegisteredId == MaxAssets + 1
CapturedId == MaxAssets + 2
ComputationId == MaxAssets + 3

\* get_data_asset answers: 200 / 404 {"message": "... not found"} / 500
GetDataAssetAnswers ==
    { [status_code |-> 200, message |-> "none"],
      [status_code |-> 404, message |-> "not found"],
      [status_code |-> 500, message |-> "internal error"] }

\* create_data_asset / run_capsule answers: a body with or without "id"
SubmitAnswers ==
    { [status_code |-> 200, has_id |-> TRUE],
      [status_code |-> 200, has_id |-> FALSE],
      [status_code |-> 500, has_id |-> FALSE] }

\* update_permissions answers: 204 on success, 403 on refusal
PermissionAnswers == {204, 403}

\* the states get_computation reports
ComputationStates == {"initializing", "running", "completed", "failed"}

NoResponse == [kind |-> "none", status_code |-> 0, id |-> NoId,
               state |-> "none", message |-> "none", serial |-> 0]
(* ---------------------- add_data_level_metadata ------------------------ *)
\* DataLevel.RAW.value, DataLevel.DERIVED.value
DataLevels == {"raw", "derived"}

\* the tags a caller may give: the two data levels and one other tag
TagValues == DataLevels \cup {"ecephys"}

\* tag lists of a caller: any order, repetitions allowed
TagLists == UNION {[1..n -> TagValues] : n \in 0..MaxTags}

\* the keys of a custom_metadata dict: "data level" and one other key
MetadataKeys == {"data level", "experiment"}

\* a dict over MetadataKeys; "absent": the key is not in the dict.  None and
\* the empty dict are both the dict with every key absent.
MetadataDicts ==
    {m \in [MetadataKeys -> DataLevels \cup {"absent", "smartspim"}] :
        /\ m["data level"] # "smartspim"
        /\ m["experiment"] \in {"absent", "smartspim"}}

NoMetadata == [k \in MetadataKeys |-> "absent"]

\* set(tags or []), line 39
TagSet(tags) == {tags[i] : i \in DOMAIN tags}

\* mutant: the raw tag is kept when the level is derived
DataLevelTagsKeepRaw(data_level, tags) == TagSet(tags) \cup {data_level}

\* mutant: a level that is already among the tags is taken out
DataLevelTagsToggle(data_level, tags) ==
    IF data_level \in TagSet(tags)
    THEN TagSet(tags) \ {data_level, "raw"}
    ELSE (TagSet(tags) \cup {data_level}) \
             (IF data_level = "derived" THEN {"raw"} ELSE {})

\* lines 39-43: the set of tags after add and discard
DataLevelTags(data_level, tags) ==
    IF data_level = "derived"
    THEN (TagSet(tags) \cup {data_level}) \ {"raw"}
    ELSE TagSet(tags) \cup {data_level}

\* list(tags), line 45: the elements of the set once each, in the order the
\* set happens to iterate
ListsOf(S) ==
    {t \in [1..Cardinality(S) -> S] : \A x \in S : \E i \in DOMAIN t : t[i] = x}

\* lines 47-48: custom_metadata.update({"data level": data_level.value})
DataLevelMetadata(data_level, custom_metadata) ==
    [custom_metadata EXCEPT !["data level"] = data_level]

\* add_data_level_metadata, lines 32-50: the pairs it may return
AddDataLevelMetadata(data_level, tags, custom_metadata) ==
    {[tags |-> t,
      custom_metadata |-> DataLevelMetadata(data_level, custom_metadata)] :
        t \in ListsOf(DataLevelTags(data_level, tags))}

NoError == [type |-> "none", stage |-> "none", id |-> NoId,
            status_code |-> 0, name |-> "none", body |-> "none"]
NoRequest == [name |-> "none", mount |-> "none", source |-> "none",
              source_id |-> NoId, keep_on_external_storage |-> TRUE,
              tags |-> << >>, custom_metadata |-> NoMetadata]
NoCheck == [idx |-> 0, response |-> NoResponse]
\* states: what get_computation has reported so far, oldest first
NoPoll == [num_checks |-> 0, state |-> "none", states |-> << >>]
NoResponses == [register |-> NoResponse, run |-> NoResponse,
                capture |-> NoResponse]

VARIABLES
    entry,          \* which public entry point this invocation runs
    cfg,            \* the caller's arguments / job configuration
    pc,             \* position in the code
    stage,          \* "register" | "run" | "capture" | "none"
    log,            \* remote calls and sleeps issued so far, in order
    err,            \* the exception that ended the invocation, if any
    ret,            \* the value returned by the entry point
    wait,           \* result of the last wait_for_data_availability
    poll,           \* locals of the computation-status loop
    resp,           \* responses held by the job: register, run, capture
    data_assets,    \* the data assets of the run request, as [id, mount]
    check,          \* locals of the existence check: idx, response
    request,        \* the CreateDataAssetRequest being submitted
    config,         \* the caller's mutable configuration objects, as they are
    invocation,     \* how many times the job has been invoked on them
    meta            \* add_data_level_metadata, the config models, update_tags:
                    \* the inputs of the call and what it has produced

vars == <<entry, cfg, pc, stage, log, err, ret, wait, poll, resp,
          data_assets, check, request, config, invocation, meta>>

(* ------------------------------- log ----------------------------------- *)
\* ok: the answer was a success (get_computation: the state is "completed")
Call(op, st, arg, ok) == [op |-> op, stage |-> st, arg |-> arg, ok |-> ok]

Count(op) == Cardinality({i \in 1..Len(log) : log[i].op = op})
CountIn(op, st) ==
    Cardinality({i \in 1..Len(log) : log[i].op = op /\ log[i].stage = st})

(* --------------------------- shared helpers ---------------------------- *)
\* the response object of create_data_asset / run_capsule for answer a
SubmitResponse(kind, a, id, state) ==
    [kind |-> kind, status_code |-> a.status_code,
     id |-> IF a.has_id THEN id ELSE NoId,
     state |-> IF a.has_id THEN state ELSE "none",
     message |-> "none", serial |-> 1]

DataAssetResponse(a, id, serial) ==
    [kind |-> "data_asset", status_code |-> a.status_code, id |-> id,
     state |-> "none", message |-> a.message, serial |-> serial]

\* requests.Response.__bool__ is Response.ok: status below 400
Truthy(response) ==
    response.kind # "none" /\ response.status_code < 400

\* the caller's own data assets: ids 1..n, all with both id and mount
UserAssets(n) == [i \in 1..n |-> [id |-> i, mount |-> "mount"]]

\* the id the remote assigns to an asset created by stage st
CreatedId(st) == IF st = "register" THEN RegisteredId ELSE CapturedId

\* response.json() as it is printed into an error message
ResponseJson(response) ==
    IF response.id = NoId THEN "json_without_id" ELSE "json_with_id"

\* an exception raised in stage st; id, status_code, name and body are what
\* its message carries (NoId, 0, "none": not carried)
Error(type, st, id, status_code, name, body) ==
    [type |-> type, stage |-> st, id |-> id, status_code |-> status_code,
     name |-> name, body |-> body]

(* -------------------- wait_for_data_availability ----------------------- *)
\* codeocean_job.py 90-106 and codeocean_job_v2.py 263-279 are the same code.
\* The remote's behaviour towards one call of the method: the poll at which
\* the asset first answers 200 (0: never) and its answer before that.
Visibility(last) ==
    [visible_at : 0..last,
     failure : {a \in GetDataAssetAnswers : a.status_code # 200}]

AnswerAt(env, round) ==
    IF env.visible_at = round
    THEN CHOOSE a \in GetDataAssetAnswers : a.status_code = 200
    ELSE env.failure

NoWait == [data_asset_id |-> NoId, timeout_seconds |-> 0,
           pause_interval |-> 0, num_of_checks |-> 0, calls |-> << >>,
           response |-> NoResponse]

\* mutant: the timeout test is not strict
BreakFlagNotStrict(pause_interval, num_of_checks, timeout_seconds, response) ==
    \/ (pause_interval * num_of_checks) >= timeout_seconds
    \/ response.status_code = 200

\* mutant: a 200 answer ends the loop only together with the timeout
BreakFlagTimeoutOnly(pause_interval, num_of_checks, timeout_seconds, response) ==
    (pause_interval * num_of_checks) > timeout_seconds

\* the loop's exit test (lines 94-96 and 102-104)
BreakFlag(pause_interval, num_of_checks, timeout_seconds, response) ==
    \/ (pause_interval * num_of_checks) > timeout_seconds
    \/ response.status_code = 200

\* mutant: the status check is done by submitting the creation again
WaitCallsResubmit(st, pause_interval, response) ==
    << Call("sleep", st, pause_interval, TRUE),
       Call("create_data_asset", st, response.id,
            response.status_code = 200) >>

\* mutant: the asset is queried before the sleep
WaitCallsGetFirst(st, pause_interval, response) ==
    << Call("get_data_asset", st, response.id, response.status_code = 200),
       Call("sleep", st, pause_interval, TRUE) >>

\* time.sleep(pause_interval); response = get_data_asset(data_asset_id)
WaitCalls(st, pause_interval, response) ==
    << Call("sleep", st, pause_interval, TRUE),
       Call("get_data_asset", st, response.id, response.status_code = 200) >>

\* lines 98-106: `while not break_flag` from the locals w, then the return
RECURSIVE WhileNotBreak(_, _, _)
WhileNotBreak(env, st, w) ==
    LET round == Len(w.calls) \div 2 + 1
        response == DataAssetResponse(AnswerAt(env, round),
                                      w.data_asset_id, round)
        n == w.num_of_checks + 1
        w2 == [w EXCEPT !.response = response, !.num_of_checks = n,
                        !.calls = @ \o WaitCalls(st, w.pause_interval,
                                                 response)]
    IN  IF BreakFlag(w.pause_interval, n, w.timeout_seconds, response)
        THEN w2
        ELSE WhileNotBreak(env, st, w2)

\* lines 90-106: the locals at the return, with the calls made on the way
WaitForDataAvailability(env, st, data_asset_id, timeout_seconds, pause_interval) ==
    LET response == DataAssetResponse(AnswerAt(env, 1), data_asset_id, 1)
        w == [data_asset_id |-> data_asset_id,
              timeout_seconds |-> timeout_seconds,
              pause_interval |-> pause_interval,
              num_of_checks |-> 0,
              calls |-> WaitCalls(st, pause_interval, response),
              response |-> response]
    IN  IF BreakFlag(pause_interval, 0, timeout_seconds, response)
        THEN w
        ELSE WhileNotBreak(env, st, w)

\* mutant: only a "not found" answer counts as a failed wait
UnavailableOnly404(response) == response.status_code = 404

\* what the callers make of the returned response (codeocean_job.py, lines
\* 271 and 360; codeocean_job_v2.py, line 324)
Unavailable(response) == response.status_code # 200

\* arguments of wait_for_data_availability when called on its own
WaitConfigs ==
    [data_asset_id : {1}, timeout_seconds : 0..MaxTimeout,
     pause_interval : 1..MaxInterval]

\* wait_for_data_availability called on its own
Wait ==
    /\ pc = "wait"
    /\ \E env \in Visibility(MaxTimeout + 2) :
       \E w \in {WaitForDataAvailability(env, stage, cfg.data_asset_id,
                                         cfg.timeout_seconds,
                                         cfg.pause_interval)} :
            /\ wait' = w
            /\ log' = log \o w.calls
            /\ ret' = w.response
    /\ pc' = "done"
    /\ UNCHANGED <<entry, cfg, stage, err, poll, resp, data_assets, check,
                   request>>
    /\ UNCHANGED <<config, invocation, meta>>

(* ------------------- applying add_data_level_metadata ------------------ *)
NoMeta == [tags |-> << >>, custom_metadata |-> NoMetadata,
           levels |-> << >>, outs |-> << >>]

\* one application of add_data_level_metadata to the tags and metadata that
\* the previous application returned (register_data, lines 121-128;
\* capture_result, lines 222-229)
ApplyDataLevel ==
    /\ pc = "tags"
    /\ Len(meta.levels) < MaxApplications
    /\ \E data_level \in DataLevels :
       \E out \in AddDataLevelMetadata(data_level,
                    IF meta.outs = << >> THEN meta.tags
                    ELSE meta.outs[Len(meta.outs)].tags,
                    IF meta.outs = << >> THEN meta.custom_metadata
                    ELSE meta.outs[Len(meta.outs)].custom_metadata) :
            meta' = [meta EXCEPT !.levels = Append(@, data_level),
                                 !.outs = Append(@, out)]
    /\ UNCHANGED <<entry, cfg, pc, stage, log, err, ret, wait, poll, resp,
                   data_assets, check, request, config, invocation>>

(* ------------------ models/config.py: the config models ---------------- *)
\* an Optional[...] field: None, or a value
NoneOf(empty) == [none |-> TRUE, value |-> empty]
Some(v) == [none |-> FALSE, value |-> v]

\* tags: Optional[List[str]], custom_metadata: Optional[Dict]
OptionalTags == {NoneOf(<< >>)} \cup {Some(t) : t \in TagLists}
OptionalMetadata == {NoneOf(NoMetadata)} \cup {Some(m) : m \in MetadataDicts}

\* what a RegisterDataConfig or CaptureResultConfig is constructed from;
\* asset_name, process_name: given (TRUE) or None.  RegisterDataConfig
\* requires asset_name and has no process_name.
ConfigInputs ==
    { c \in [model : {"RegisterDataConfig", "CaptureResultConfig"},
             asset_name : BOOLEAN,
             process_name : BOOLEAN,
             tags : OptionalTags,
             custom_metadata : OptionalMetadata] :
        c.model = "RegisterDataConfig" => c.asset_name /\ ~c.process_name }

\* mutant: a None is left as it is
TagsOrEmptyKeepNone(tags) == tags

\* lines 44-45 and 141-142: if self.tags is None: self.tags = []
TagsOrEmpty(tags) == IF tags.none THEN Some(<< >>) ELSE tags

\* lines 46-47 and 143-144:
\* if self.custom_metadata is None: self.custom_metadata = {}
MetadataOrEmpty(custom_metadata) ==
    IF custom_metadata.none THEN Some(NoMetadata) ELSE custom_metadata

\* check_asset_and_metadata, lines 137-140: the assertion on the two names
NamesRejected(c) ==
    c.model = "CaptureResultConfig" /\ ~c.asset_name /\ ~c.process_name

\* the fields as pydantic has set them, before the model validator runs
Unvalidated(c) ==
    [input |-> c, built |-> FALSE, tags |-> c.tags,
     custom_metadata |-> c.custom_metadata]

\* the constructor: check_tags_and_custom_metadata (lines 41-48) or
\* check_asset_and_metadata (lines 134-145) runs after the fields are set
ConstructConfig ==
    /\ pc = "config"
    /\ IF NamesRejected(meta.input)
       THEN /\ pc' = "failed"
            /\ err' = [type |-> "AssertionError", stage |-> "none",
                       id |-> NoId, status_code |-> 0,
                       name |-> "asset_name", body |-> "none"]
            /\ meta' = meta
       ELSE /\ pc' = "done"
            /\ err' = err
            /\ meta' = [meta EXCEPT
                          !.built = TRUE,
                          !.tags = TagsOrEmpty(@),
                          !.custom_metadata = MetadataOrEmpty(@)]
    /\ UNCHANGED <<entry, cfg, stage, log, ret, wait, poll, resp,
                   data_assets, check, request, config, invocation>>

(* ------------------- api_handler.py: APIHandler.update_tags ------------- *)
\* the tags update_tags deals with: one to be removed or replaced, one to
\* be left alone, one to be added or replaced by
UpdateTagValues == {"old", "keep", "new"}

\* data_asset.get("tags"): None, or a list with repetitions allowed
AssetTagLists == UNION {[1..n -> {"old", "keep"}] : n \in 0..MaxAssetTags}
OptionalAssetTags == {NoneOf(<< >>)} \cup {Some(t) : t \in AssetTagLists}

\* tags_to_remove, tags_to_add: None, or a list of at most one tag
OptionalTagList ==
    {NoneOf(<< >>), Some(<< >>)} \cup {Some(<<t>>) : t \in UpdateTagValues}

\* a dict of tags; "absent": the tag is not a key
NoReplacement == [t \in UpdateTagValues |-> "absent"]

\* tags_to_replace: None, or a dict with at most one key
OptionalReplacement ==
    {NoneOf(NoReplacement)} \cup
    {Some(d) : d \in {f \in [UpdateTagValues ->
                                UpdateTagValues \cup {"absent"}] :
                         Cardinality({t \in UpdateTagValues :
                                         f[t] # "absent"}) <= 1}}

\* the data assets of the input: ids 1..n, names "asset_1".."asset_n"
UpdatedAssets ==
    UNION { {[i \in 1..n |-> [id |-> i, name |-> "asset_" \o ToString(i),
                              tags |-> t[i]]] :
                t \in [1..n -> OptionalAssetTags]} : n \in 0..MaxUpdated }

\* lines 74-75: set() if the list is None, else the list
OrEmptyList(optional) == IF optional.none THEN << >> ELSE optional.value

\* lines 76-78: dict() if tags_to_replace is None, else tags_to_replace
OrEmptyDict(optional) ==
    IF optional.none THEN NoReplacement ELSE optional.value

\* lines 81-85: the asset's tags as a set
AssetTags(data_asset) ==
    IF data_asset.tags.none THEN {} ELSE TagSet(data_asset.tags.value)

\* line 88: tags_to_replace.get(tag, tag)
ReplaceTag(tags_to_replace, tag) ==
    IF tags_to_replace[tag] = "absent" THEN tag ELSE tags_to_replace[tag]

\* mutant: the tags are added before the removal
MappedTagsAddFirst(tags_to_remove, tags_to_add, tags_to_replace, data_asset) ==
    {ReplaceTag(OrEmptyDict(tags_to_replace), t) :
        t \in (AssetTags(data_asset) \cup TagSet(OrEmptyList(tags_to_add)))
                 \ TagSet(OrEmptyList(tags_to_remove))}

\* lines 81-88: difference_update, update, then the replacement of each tag
MappedTags(tags_to_remove, tags_to_add, tags_to_replace, data_asset) ==
    LET tags == AssetTags(data_asset)
        removed == tags \ TagSet(OrEmptyList(tags_to_remove))
        added == removed \cup TagSet(OrEmptyList(tags_to_add))
    IN  {ReplaceTag(OrEmptyDict(tags_to_replace), tag) : tag \in added}

\* mutant: the dryrun flag is not looked at
IsDryRunNever(dryrun) == FALSE

\* line 93: if self.dryrun is True
IsDryRun(dryrun) == dryrun = TRUE

UpdateInputs ==
    [dryrun : BOOLEAN,
     tags_to_remove : OptionalTagList,
     tags_to_add : OptionalTagList,
     tags_to_replace : OptionalReplacement,
     data_assets : UpdatedAssets]

\* lines 79-107: one iteration of `for data_asset in data_assets`
UpdateTagsStep ==
    /\ pc = "update_tags"
    /\ meta.idx <= Len(meta.input.data_assets)
    /\ LET data_asset == meta.input.data_assets[meta.idx]
           mapped_tags == MappedTags(meta.input.tags_to_remove,
                                     meta.input.tags_to_add,
                                     meta.input.tags_to_replace, data_asset)
       IN  IF IsDryRun(meta.input.dryrun)
           THEN meta' = [meta EXCEPT !.idx = @ + 1,
                                     !.mapped = Append(@, mapped_tags)]
           ELSE \E new_tags \in ListsOf(mapped_tags) :
                meta' = [meta EXCEPT
                           !.idx = @ + 1,
                           !.mapped = Append(@, mapped_tags),
                           !.calls = Append(@,
                               [data_asset_id |-> data_asset.id,
                                new_name |-> data_asset.name,
                                new_tags |-> new_tags])]
    /\ UNCHANGED <<entry, cfg, pc, stage, log, err, ret, wait, poll, resp,
                   data_assets, check, request, config, invocation>>

\* the loop is exhausted and update_tags returns None
UpdateTagsReturn ==
    /\ pc = "update_tags"
    /\ meta.idx > Len(meta.input.data_assets)
    /\ pc' = "done"
    /\ UNCHANGED <<entry, cfg, stage, log, err, ret, wait, poll, resp,
                   data_assets, check, request, config, invocation, meta>>

(* ---------------------------- control flow ----------------------------- *)
\* codeocean_job_v2.CodeOceanJob.__init__: the job configuration
V2Configs ==
    { c \in [register : BOOLEAN,
             keep_on_external_storage : BOOLEAN,
             process : BOOLEAN,
             n_assets : 0..MaxAssets,
             capture : {"none", "CaptureResultConfig",
                        "CreateDataAssetRequest"},
             input_data_asset_name : BOOLEAN,
             assets_viewable_to_everyone : BOOLEAN,
             process_poll_interval_seconds : 0..MaxInterval,
             process_timeout_seconds : {None} \cup 0..MaxTimeout,
             add_data_level_tags : BOOLEAN] :
        \* the fields of an absent part of the job are fixed
        /\ (~c.register /\ c.capture # "CaptureResultConfig"
                => c.add_data_level_tags)
        /\ (~c.register => c.keep_on_external_storage)
        /\ (~c.process => c.n_assets = 0 /\ c.process_poll_interval_seconds = 0)
        /\ (c.process_poll_interval_seconds = 0
                => c.process_timeout_seconds = None)
        /\ (c.capture # "CaptureResultConfig" => ~c.input_data_asset_name) }

\* mutant: the registered asset is not given to the capsule
V2ProcessDataAssetsOwnOnly(configured, register_data_response) == configured

\* process_data, lines 139-151: process_config.data_assets after the append
V2ProcessDataAssets(configured, register_data_response) ==
    IF Truthy(register_data_response)
    THEN Append(configured, [id |-> register_data_response.id,
                             mount |-> "register_mount"])
    ELSE configured

\* datetime_to_name_string(datetime.now()), line 26
CaptureTime == "time"

\* build_processed_data_asset_name, lines 25-28
BuildProcessedDataAssetName(input_data_asset_name, process_name) ==
    input_data_asset_name \o "_" \o process_name \o "_" \o CaptureTime

\* capture_result, lines 203-209: the input name, "none" when there is none
V2InputAssetName(c) ==
    IF c.input_data_asset_name THEN "given"
    ELSE IF c.register THEN "input"
    ELSE "none"

\* register_data, lines 121-128; capture_result, lines 222-229: the tags
\* and metadata the request may end up with
V2DataLevel(add_data_level_tags, data_level, tags, custom_metadata) ==
    IF add_data_level_tags
    THEN AddDataLevelMetadata(data_level, tags, custom_metadata)
    ELSE {[tags |-> tags, custom_metadata |-> custom_metadata]}

\* what run_job does after the register step (lines 106-116)
V2AfterRegister ==
    IF cfg.process THEN "v2_process"
    ELSE IF cfg.capture # "none" THEN "v2_capture" ELSE "v2_return"

\* what run_job does after the process step (lines 111-116)
V2AfterProcess == IF cfg.capture # "none" THEN "v2_capture" ELSE "v2_return"

\* mutant: the asset is published whatever the job says
V2AfterCreateAlwaysPublish == "v2_wait"

\* create_data_asset_and_update_permissions, line 318
V2AfterCreate ==
    IF cfg.assets_viewable_to_everyone THEN "v2_wait" ELSE "v2_create_return"

\* mutant: run_job swallows the exception of a stage and goes on
RaiseSwallowed(e) ==
    /\ err' = e
    /\ pc' = IF entry = "v2" /\ stage = "register" THEN V2AfterRegister
             ELSE IF entry = "v2" /\ stage = "run" THEN V2AfterProcess
             ELSE "failed"

\* no method of either module catches an exception: a raise ends the job
Raise(e) ==
    /\ err' = e
    /\ pc' = "failed"

(* ========================= codeocean_job.py ============================ *)
\* The arguments of register_and_run; each stage draws the arguments it
\* reads when it starts, and cfg keeps the ones drawn so far.
\* register_data_config
V1RegisterConfigs ==
    [keep_on_external_storage : BOOLEAN, viewable_to_everyone : BOOLEAN]

\* capsule_id / pipeline_id, additional_data_assets, run_capsule_config
V1RunConfigs ==
    { c \in [ids : {"capsule", "pipeline", "both", "neither"},
             n_additional : 0..MaxAssets,
             pause_interval : 0..MaxInterval \cup {ScenarioPauseInterval},
             timeout_seconds : {None} \cup 0..MaxTimeout] :
        c.pause_interval = 0 => c.timeout_seconds = None }

\* capture_results, capture_result_config
V1CaptureConfigs ==
    { c \in [capture_results : BOOLEAN, asset_name : BOOLEAN,
             capture_viewable : BOOLEAN] :
        /\ (~c.capture_results => c.asset_name /\ ~c.capture_viewable)
        /\ (~c.asset_name => ~c.capture_viewable) }

V1NoConfig ==
    [viewable_to_everyone |-> FALSE, ids |-> "capsule", n_additional |-> 0,
     pause_interval |-> 0, timeout_seconds |-> None,
     capture_results |-> FALSE, asset_name |-> TRUE,
     capture_viewable |-> FALSE]

\* run, lines 431-445: the assertions on capsule_id and pipeline_id
V1IdsRejected(ids) == ids \in {"both", "neither"}

\* register_and_run, lines 563-570: the registered asset under the register
\* config's mount, then the additional data assets
V1DataAssets(registered_id, n_additional) ==
    << [id |-> registered_id, mount |-> "register_mount"] >>
    \o UserAssets(n_additional)

\* run, lines 446-452: the data_assets entry of run_capsule_config
V1RunDataAssets(run_keys, configured, given) ==
    IF "data_assets" \notin run_keys THEN given ELSE configured \o given

\* run, lines 434-445: the keys run() has set in run_capsule_config
V1RunKeys(run_keys, ids) ==
    run_keys \cup {"data_assets"}
             \cup (IF ids = "capsule" THEN {"capsule_id"} ELSE {"pipeline_id"})

\* mutant: the captured asset is said to come from the registered asset
ComputationIdRegistered(process_response) == RegisteredId

\* run, line 455; v2 capture_result, line 191:
\* computation_id = response.json()["id"]
ComputationIdOf(process_response) == process_response.id

\* mutant: the "not found" message is not looked at
V1CheckMessageIgnored(message) == "none"

\* run_capsule, lines 165-169: the exception the existence check raises
V1CheckMessage(message) ==
    IF message = "not found" THEN "FileNotFoundError" ELSE "none"

\* mutant: the status loop is entered whatever the pause interval
PollsAlways(pause_interval) == TRUE

\* `if pause_interval:` (run_capsule, line 182; process_data, line 166):
\* None and 0 are falsy
Polls(pause_interval) == pause_interval # 0

\* mutant: the response is refreshed once the computation has completed
RunCapsuleReturnCompleted(run_capsule_response, p) ==
    IF p.state = "completed"
    THEN [run_capsule_response EXCEPT !.state = "completed"]
    ELSE run_capsule_response

\* mutant: the last polled response is returned
RunCapsuleReturnPolled(run_capsule_response, p) ==
    IF p.num_checks > 0
    THEN [run_capsule_response EXCEPT !.state = p.state,
                                      !.serial = p.num_checks + 1]
    ELSE run_capsule_response

\* `return run_capsule_response` (run_capsule, line 197; process_data,
\* line 186), with the loop's locals p at hand
RunCapsuleReturn(run_capsule_response, p) == run_capsule_response

\* mutant: a completed computation ends the loop only if a timeout is set
PollDoneNeedsTimeout(state, pause_interval, num_checks, timeout_seconds) ==
    /\ timeout_seconds # None
    /\ \/ state = "completed"
       \/ pause_interval * num_checks >= timeout_seconds

\* mutant: the timeout test is strict
PollDoneStrict(state, pause_interval, num_checks, timeout_seconds) ==
    \/ state = "completed"
    \/ /\ timeout_seconds # None
       /\ pause_interval * num_checks > timeout_seconds

\* mutant: the loop ends at its first check whatever the state
PollDoneFirstCheck(state, pause_interval, num_checks, timeout_seconds) == TRUE

\* the exit test of the computation-status loop, lines 192-195
PollDone(state, pause_interval, num_checks, timeout_seconds) ==
    \/ state = "completed"
    \/ /\ timeout_seconds # None
       /\ pause_interval * num_checks >= timeout_seconds

\* mutant: a loop that ends without "completed" ends in a failure
V1AfterPollCompletedOnly(state) ==
    IF state = "completed" THEN "v1_run_capsule_return" ELSE "failed"

\* run_capsule, lines 196-197: where the loop's exit leads, with the last
\* polled state at hand: to `return run_capsule_response`
V1AfterPoll(state) == "v1_run_capsule_return"

\* register_data_and_update_permissions, lines 246-266
V1RegisterData ==
    /\ pc = "v1_register"
    /\ stage' = "register"
    /\ \E c \in V1RegisterConfigs, a \in SubmitAnswers :
        LET rq == [name |-> "input", mount |-> "register_mount",
                   source |-> "aws", source_id |-> NoId,
                   keep_on_external_storage |-> c.keep_on_external_storage,
                   tags |-> << >>, custom_metadata |-> NoMetadata]
            r == SubmitResponse("data_asset", a, CreatedId("register"), "none")
        IN  /\ cfg' = [cfg EXCEPT !.viewable_to_everyone =
                                      c.viewable_to_everyone]
            /\ request' = rq
            /\ log' = Append(log, Call("create_data_asset", "register",
                                       rq.source_id, a.has_id))
            /\ resp' = [resp EXCEPT !.register = r]
            /\ IF ~c.viewable_to_everyone
               THEN /\ pc' = "v1_register_return"
                    /\ err' = err
               ELSE IF r.id = NoId
               THEN Raise(Error("KeyError", "register", NoId, 0, "id", "none"))
               ELSE /\ pc' = "v1_register_wait"
                    /\ err' = err
    /\ UNCHANGED <<entry, ret, wait, poll, data_assets, check>>
    /\ UNCHANGED <<config, invocation, meta>>

\* register_data_and_update_permissions, lines 267-281
V1RegisterPermissions ==
    /\ pc = "v1_register_wait"
    /\ \E env \in Visibility(MaxLag) :
       \E w \in {WaitForDataAvailability(env, stage, resp.register.id,
                                         DefaultTimeoutSeconds,
                                         DefaultPauseInterval)} :
            /\ wait' = w
            /\ IF Unavailable(w.response)
               THEN /\ Raise(Error("FileNotFoundError", stage,
                                   w.data_asset_id, 0, "none", "none"))
                    /\ log' = log \o w.calls
               ELSE \E p \in PermissionAnswers :
                    /\ log' = (log \o w.calls) \o
                         << Call("update_permissions", stage,
                                 w.data_asset_id, p < 400) >>
                    /\ pc' = "v1_register_return"
                    /\ err' = err
    /\ UNCHANGED <<entry, cfg, stage, ret, poll, resp, data_assets, check,
                   request>>
    /\ UNCHANGED <<config, invocation, meta>>

\* line 283, then register_and_run, lines 563-565: the request is a local
\* of register_data_and_update_permissions and is gone at its return
V1RegisterReturn ==
    /\ pc = "v1_register_return"
    /\ request' = NoRequest
    /\ IF resp.register.id = NoId
       THEN Raise(Error("KeyError", stage, NoId, 0, "id", "none"))
       ELSE /\ pc' = "v1_run"
            /\ err' = err
    /\ UNCHANGED <<entry, cfg, stage, log, ret, wait, poll, resp,
                   data_assets, check>>
    /\ UNCHANGED <<config, invocation, meta>>

\* register_and_run, lines 563-580, run, lines 431-454, and run_capsule,
\* lines 150-159
V1Run ==
    /\ pc = "v1_run"
    /\ stage' = "run"
    /\ check' = [idx |-> 1, response |-> NoResponse]
    /\ \E c \in V1RunConfigs :
        /\ cfg' = [cfg EXCEPT !.ids = c.ids,
                              !.n_additional = c.n_additional,
                              !.pause_interval = c.pause_interval,
                              !.timeout_seconds = c.timeout_seconds]
        /\ IF V1IdsRejected(c.ids)
           THEN /\ Raise(Error("AssertionError", "run", NoId, 0, c.ids,
                               "none"))
                /\ data_assets' =
                     V1DataAssets(resp.register.id, c.n_additional)
                /\ config' = config
           ELSE /\ pc' = "v1_check"
                /\ err' = err
                /\ data_assets' =
                     V1RunDataAssets(config.run_keys, config.data_assets,
                         V1DataAssets(resp.register.id, c.n_additional))
                /\ config' =
                     [config EXCEPT
                        !.run_keys = V1RunKeys(@, c.ids),
                        !.data_assets =
                            V1RunDataAssets(config.run_keys, @,
                                V1DataAssets(resp.register.id,
                                             c.n_additional))]
    /\ UNCHANGED <<entry, log, ret, wait, poll, resp, request>>
    /\ UNCHANGED <<invocation, meta>>

\* run_capsule, lines 161-169: one iteration, or the end of the loop
V1CheckDataAssets ==
    /\ pc = "v1_check"
    /\ IF check.idx > Len(data_assets)
       THEN /\ pc' = "v1_submit"
            /\ UNCHANGED <<log, err, check>>
       ELSE \E a \in GetDataAssetAnswers :
            LET data_asset_id == data_assets[check.idx].id
                response == DataAssetResponse(a, data_asset_id, check.idx)
            IN  /\ log' = Append(log, Call("get_data_asset", stage,
                                           data_asset_id,
                                           a.status_code = 200))
                /\ IF V1CheckMessage(response.message) # "none"
                   THEN /\ Raise(Error(V1CheckMessage(response.message),
                                       stage, data_asset_id, 0, "none", "none"))
                        /\ check' = [check EXCEPT !.response = response]
                   ELSE /\ check' = [idx |-> check.idx + 1,
                                     response |-> response]
                        /\ UNCHANGED <<pc, err>>
    /\ UNCHANGED <<entry, cfg, stage, ret, wait, poll, resp, data_assets,
                   request>>
    /\ UNCHANGED <<config, invocation, meta>>

\* run_capsule, lines 171-182
V1RunCapsule ==
    /\ pc = "v1_submit"
    /\ \E a \in SubmitAnswers :
        LET r == SubmitResponse("computation", a, ComputationId,
                                "initializing")
        IN  /\ log' = Append(log, Call("run_capsule", stage,
                                       Len(data_assets), a.has_id))
            /\ resp' = [resp EXCEPT !.run = r]
            /\ IF r.id = NoId
               THEN Raise(Error("KeyError", stage, NoId, 0, "id", "none"))
               ELSE /\ pc' = IF Polls(cfg.pause_interval)
                             THEN "v1_poll" ELSE "v1_run_capsule_return"
                    /\ err' = err
    /\ poll' = NoPoll
    /\ UNCHANGED <<entry, cfg, stage, ret, wait, data_assets, check,
                   request>>
    /\ UNCHANGED <<config, invocation, meta>>

\* run_capsule, lines 185-196: one iteration of `while executing`
V1Poll ==
    /\ pc = "v1_poll"
    /\ poll.num_checks < MaxPolls
    /\ \E s \in ComputationStates :
        LET n == poll.num_checks + 1
        IN  /\ poll' = [num_checks |-> n, state |-> s,
                         states |-> Append(poll.states, s)]
            /\ log' = log \o
                 << Call("sleep", stage, cfg.pause_interval, TRUE),
                    Call("get_computation", stage, resp.run.id,
                         s = "completed") >>
            /\ pc' = IF PollDone(s, cfg.pause_interval, n,
                                 cfg.timeout_seconds)
                     THEN V1AfterPoll(s) ELSE "v1_poll"
    /\ UNCHANGED <<entry, cfg, stage, err, ret, wait, resp, data_assets,
                   check, request>>
    /\ UNCHANGED <<config, invocation, meta>>

\* line 197 (the locals of run_capsule are gone), then run, lines 455-471
V1RunCapsuleReturn ==
    /\ pc = "v1_run_capsule_return"
    /\ check' = NoCheck
    /\ resp' = [resp EXCEPT !.run = RunCapsuleReturn(@, poll)]
    /\ \E c \in V1CaptureConfigs :
        /\ cfg' = [cfg EXCEPT !.capture_results = c.capture_results,
                              !.asset_name = c.asset_name,
                              !.capture_viewable = c.capture_viewable]
        /\ IF ~c.capture_results
           THEN /\ pc' = "v1_return"
                /\ UNCHANGED <<err, config>>
           ELSE IF ~c.asset_name
           THEN \* lines 459-461
                /\ Raise(Error("AssertionError", "capture", NoId, 0,
                               "asset_name", "none"))
                /\ config' = config
           ELSE IF "computation_id" \in config.capture_keys
           THEN \* lines 463-465
                /\ Raise(Error("AssertionError", "capture", NoId, 0,
                               "computation_id", "none"))
                /\ config' = config
           ELSE \* line 466
                /\ pc' = "v1_capture"
                /\ err' = err
                /\ config' = [config EXCEPT !.capture_keys =
                                                @ \cup {"computation_id"}]
    /\ UNCHANGED <<entry, stage, log, ret, wait, poll, data_assets,
                   request>>
    /\ UNCHANGED <<invocation, meta>>

\* capture_result, lines 326-353
V1CaptureResult ==
    /\ pc = "v1_capture"
    /\ stage' = "capture"
    /\ \E a \in SubmitAnswers :
        LET rq == [name |-> "some_asset", mount |-> "some_mount",
                   source |-> "computation",
                   source_id |-> ComputationIdOf(resp.run),
                   keep_on_external_storage |-> TRUE,
                   tags |-> << >>, custom_metadata |-> NoMetadata]
            r == SubmitResponse("data_asset", a, CreatedId("capture"), "none")
        IN  /\ request' = rq
            /\ log' = Append(log, Call("create_data_asset", "capture",
                                       rq.source_id, a.has_id))
            /\ resp' = [resp EXCEPT !.capture = r]
            /\ IF r.id = NoId
               THEN Raise(Error("KeyError", "capture", NoId, r.status_code,
                                rq.name, ResponseJson(r)))
               ELSE /\ pc' = "v1_capture_wait"
                    /\ err' = err
    /\ UNCHANGED <<entry, cfg, ret, wait, poll, data_assets, check>>
    /\ UNCHANGED <<config, invocation, meta>>

\* capture_result, lines 355-371
V1CapturePermissions ==
    /\ pc = "v1_capture_wait"
    /\ \E env \in Visibility(MaxLag) :
       \E w \in {WaitForDataAvailability(env, stage, resp.capture.id,
                                         DefaultTimeoutSeconds,
                                         DefaultPauseInterval)} :
            /\ wait' = w
            /\ IF Unavailable(w.response)
               THEN /\ Raise(Error("FileNotFoundError", stage,
                                   w.data_asset_id, 0, "none", "none"))
                    /\ log' = log \o w.calls
               ELSE IF cfg.capture_viewable
               THEN \E p \in PermissionAnswers :
                    /\ log' = (log \o w.calls) \o
                         << Call("update_permissions", stage,
                                 w.data_asset_id, p < 400) >>
                    /\ pc' = "v1_return"
                    /\ err' = err
               ELSE /\ log' = log \o w.calls
                    /\ pc' = "v1_return"
                    /\ err' = err
    /\ UNCHANGED <<entry, cfg, stage, ret, poll, resp, data_assets, check,
                   request>>
    /\ UNCHANGED <<config, invocation, meta>>

\* run, line 472, and register_and_run, lines 581-582
V1Return ==
    /\ pc = "v1_return"
    /\ ret' = resp
    /\ pc' = "done"
    /\ UNCHANGED <<entry, cfg, stage, log, err, wait, poll, resp,
                   data_assets, check, request>>
    /\ UNCHANGED <<config, invocation, meta>>

V1Next ==
    \/ V1RegisterData
    \/ V1RegisterPermissions
    \/ V1RegisterReturn
    \/ V1Run
    \/ V1CheckDataAssets
    \/ V1RunCapsule
    \/ V1Poll
    \/ V1RunCapsuleReturn
    \/ V1CaptureResult
    \/ V1CapturePermissions
    \/ V1Return

(* ======================= codeocean_job_v2.py =========================== *)
\* mutant: 404 is reported as any other failure
V2CheckStatusNo404(status_code) ==
    IF status_code # 200 THEN "ConnectionError" ELSE "none"

\* mutant: only 404 is looked at, as in run_capsule of codeocean_job.py
V2CheckStatusOnly404(status_code) ==
    IF status_code = 404 THEN "FileNotFoundError" ELSE "none"

\* mutant: no status makes the check fail
V2CheckStatusNone(status_code) == "none"

\* check_data_assets, lines 362-367: the exception a response raises
V2CheckStatus(status_code) ==
    IF status_code = 404 THEN "FileNotFoundError"
    ELSE IF status_code # 200 THEN "ConnectionError"
    ELSE "none"

\* create_data_asset_and_update_permissions, lines 302-305
KeptOnExternalStorage(rq) ==
    rq.source = "aws" => rq.keep_on_external_storage

\* run_job, lines 92-104, and register_data, lines 121-132
V2RunJob ==
    /\ pc = "v2_run_job"
    /\ IF cfg.capture # "none" /\ ~cfg.process
       THEN /\ Raise(Error("AssertionError", stage, NoId, 0,
                           "process_config", "none"))
            /\ UNCHANGED <<stage, request>>
            /\ config' = config
       ELSE IF cfg.register
       THEN /\ stage' = "register"
            /\ \E out \in V2DataLevel(cfg.add_data_level_tags, "raw",
                                      config.tags, config.custom_metadata) :
                /\ request' = [name |-> "input", mount |-> "register_mount",
                               source |-> "aws", source_id |-> NoId,
                               keep_on_external_storage |->
                                   cfg.keep_on_external_storage,
                               tags |-> out.tags,
                               custom_metadata |-> out.custom_metadata]
                /\ config' = [config EXCEPT
                                 !.tags = out.tags,
                                 !.custom_metadata = out.custom_metadata]
            /\ pc' = "v2_create"
            /\ err' = err
       ELSE /\ pc' = V2AfterRegister
            /\ UNCHANGED <<stage, request, err, config>>
    /\ UNCHANGED <<entry, cfg, log, ret, wait, poll, resp, data_assets,
                   check>>
    /\ UNCHANGED <<invocation, meta>>

\* create_data_asset_and_update_permissions, lines 301-318
V2CreateDataAsset ==
    /\ pc = "v2_create"
    /\ IF ~KeptOnExternalStorage(request)
       THEN /\ Raise(Error("AssertionError", stage, NoId, 0, request.name,
                            "none"))
            /\ UNCHANGED <<log, resp>>
       ELSE \E a \in SubmitAnswers :
            LET r == SubmitResponse("data_asset", a, CreatedId(stage), "none")
            IN  /\ log' = Append(log, Call("create_data_asset", stage,
                                           request.source_id, a.has_id))
                /\ resp' = [resp EXCEPT ![stage] = r]
                /\ IF r.id = NoId
                   THEN Raise(Error("KeyError", stage, NoId, r.status_code,
                                    request.name, ResponseJson(r)))
                   ELSE /\ pc' = V2AfterCreate
                        /\ err' = err
    /\ UNCHANGED <<entry, cfg, stage, ret, wait, poll, data_assets, check,
                   request>>
    /\ UNCHANGED <<config, invocation, meta>>

\* create_data_asset_and_update_permissions, lines 319-334
V2UpdatePermissions ==
    /\ pc = "v2_wait"
    /\ \E env \in Visibility(MaxLag) :
       \E w \in {WaitForDataAvailability(env, stage, resp[stage].id,
                                         DefaultTimeoutSeconds,
                                         DefaultPauseInterval)} :
            /\ wait' = w
            /\ IF Unavailable(w.response)
               THEN /\ Raise(Error("FileNotFoundError", stage,
                                   w.data_asset_id, 0, "none", "none"))
                    /\ log' = log \o w.calls
               ELSE \E p \in PermissionAnswers :
                    /\ log' = (log \o w.calls) \o
                         << Call("update_permissions", stage,
                                 w.data_asset_id, p < 400) >>
                    /\ pc' = "v2_create_return"
                    /\ err' = err
    /\ UNCHANGED <<entry, cfg, stage, ret, poll, resp, data_assets, check,
                   request>>
    /\ UNCHANGED <<config, invocation, meta>>

\* line 336, back in run_job (lines 101-114)
V2CreateReturn ==
    /\ pc = "v2_create_return"
    /\ pc' = IF stage = "register" THEN V2AfterRegister ELSE "v2_return"
    /\ UNCHANGED <<entry, cfg, stage, log, err, ret, wait, poll, resp,
                   data_assets, check, request>>
    /\ UNCHANGED <<config, invocation, meta>>

\* process_data, lines 139-151
V2ProcessData ==
    /\ pc = "v2_process"
    /\ stage' = "run"
    /\ config' = [config EXCEPT !.data_assets =
                                    V2ProcessDataAssets(@, resp.register)]
    /\ data_assets' = V2ProcessDataAssets(config.data_assets, resp.register)
    /\ check' = [idx |-> 1, response |-> NoResponse]
    /\ pc' = "v2_check"
    /\ UNCHANGED <<entry, cfg, log, err, ret, wait, poll, resp, request>>
    /\ UNCHANGED <<invocation, meta>>

\* check_data_assets, lines 356-367: one iteration, or the return
V2CheckDataAssets ==
    /\ pc = "v2_check"
    /\ IF check.idx > Len(data_assets)
       THEN /\ pc' = "v2_submit"
            /\ check' = NoCheck
            /\ UNCHANGED <<log, err>>
       ELSE \E a \in GetDataAssetAnswers :
            LET data_asset_id == data_assets[check.idx].id
                response == DataAssetResponse(a, data_asset_id, check.idx)
            IN  /\ log' = Append(log, Call("get_data_asset", stage,
                                           data_asset_id,
                                           a.status_code = 200))
                /\ IF V2CheckStatus(response.status_code) # "none"
                   THEN /\ Raise(Error(V2CheckStatus(response.status_code),
                                       stage, data_asset_id, 0, "none", "none"))
                        /\ check' = [check EXCEPT !.response = response]
                   ELSE /\ check' = [idx |-> check.idx + 1,
                                     response |-> response]
                        /\ UNCHANGED <<pc, err>>
    /\ UNCHANGED <<entry, cfg, stage, ret, wait, poll, resp, data_assets,
                   request>>
    /\ UNCHANGED <<config, invocation, meta>>

\* process_data, lines 153-166
V2RunCapsule ==
    /\ pc = "v2_submit"
    /\ \E a \in SubmitAnswers :
        LET r == SubmitResponse("computation", a, ComputationId,
                                "initializing")
        IN  /\ log' = Append(log, Call("run_capsule", stage,
                                       Len(data_assets), a.has_id))
            /\ resp' = [resp EXCEPT !.run = r]
            /\ IF r.id = NoId
               THEN Raise(Error("KeyError", stage, NoId, r.status_code,
                                "none", ResponseJson(r)))
               ELSE /\ pc' = IF Polls(cfg.process_poll_interval_seconds)
                             THEN "v2_poll" ELSE "v2_process_return"
                    /\ err' = err
    /\ poll' = NoPoll
    /\ UNCHANGED <<entry, cfg, stage, ret, wait, data_assets, check,
                   request>>
    /\ UNCHANGED <<config, invocation, meta>>

\* process_data, lines 169-185: one iteration of `while executing`.
\* run_capsule_config is not a name of codeocean_job_v2.py: the right
\* operand of `or` raises NameError whenever the state is not "completed".
V2Poll ==
    /\ pc = "v2_poll"
    /\ poll.num_checks < MaxPolls
    /\ \E s \in ComputationStates :
        /\ poll' = [num_checks |-> poll.num_checks + 1, state |-> s,
                     states |-> Append(poll.states, s)]
        /\ log' = log \o
             << Call("sleep", stage, cfg.process_poll_interval_seconds, TRUE),
                Call("get_computation", stage, resp.run.id,
                     s = "completed") >>
        /\ IF s = "completed"
           THEN /\ pc' = "v2_process_return"
                /\ err' = err
           ELSE Raise(Error("NameError", stage, NoId, 0,
                            "run_capsule_config", "none"))
    /\ UNCHANGED <<entry, cfg, stage, ret, wait, resp, data_assets, check,
                   request>>
    /\ UNCHANGED <<config, invocation, meta>>

\* line 186, back in run_job (lines 106-114)
V2ProcessReturn ==
    /\ pc = "v2_process_return"
    /\ resp' = [resp EXCEPT !.run = RunCapsuleReturn(@, poll)]
    /\ pc' = V2AfterProcess
    /\ UNCHANGED <<entry, cfg, stage, log, err, ret, wait, poll,
                   data_assets, check, request>>
    /\ UNCHANGED <<config, invocation, meta>>

\* capture_result, lines 191-229
V2CaptureResult ==
    /\ pc = "v2_capture"
    /\ stage' = "capture"
    /\ IF cfg.capture = "CreateDataAssetRequest"
       THEN \* line 194 reads capture_result_config, not a name in scope
            /\ Raise(Error("NameError", "capture", NoId, 0,
                           "capture_result_config", "none"))
            /\ request' = request
       ELSE IF V2InputAssetName(cfg) = "none"
       THEN /\ Raise(Error("ValueError", "capture", NoId, 0, "none", "none"))
            /\ request' = request
       ELSE /\ \E out \in V2DataLevel(cfg.add_data_level_tags, "derived",
                                      << >>, NoMetadata) :
                request' =
                    [name |-> BuildProcessedDataAssetName(
                                  V2InputAssetName(cfg), "processed"),
                     mount |-> BuildProcessedDataAssetName(
                                   V2InputAssetName(cfg), "processed"),
                     source |-> "computation",
                     source_id |-> ComputationIdOf(resp.run),
                     keep_on_external_storage |-> TRUE,
                     tags |-> out.tags,
                     custom_metadata |-> out.custom_metadata]
            /\ pc' = "v2_create"
            /\ err' = err
    /\ UNCHANGED <<entry, cfg, log, ret, wait, poll, resp, data_assets,
                   check>>
    /\ UNCHANGED <<config, invocation, meta>>

\* run_job, line 116
V2Return ==
    /\ pc = "v2_return"
    /\ ret' = resp
    /\ pc' = "done"
    /\ UNCHANGED <<entry, cfg, stage, log, err, wait, poll, resp,
                   data_assets, check, request>>
    /\ UNCHANGED <<config, invocation, meta>>

V2Next ==
    \/ V2RunJob
    \/ V2CreateDataAsset
    \/ V2UpdatePermissions
    \/ V2CreateReturn
    \/ V2ProcessData
    \/ V2CheckDataAssets
    \/ V2RunCapsule
    \/ V2Poll
    \/ V2ProcessReturn
    \/ V2CaptureResult
    \/ V2Return

(* ------------------------------- Init ---------------------------------- *)
\* the caller's objects before the first invocation: the process config's
\* data assets and the register request's tags and metadata (v2), the keys
\* that run() sets in run_capsule_config and capture_result_config (v1)
InitialConfig(e, c) ==
    [data_assets |-> IF e = "v2" THEN UserAssets(c.n_assets) ELSE << >>,
     tags |-> IF e = "v2" /\ c.register THEN <<"ecephys">> ELSE << >>,
     custom_metadata |->
         IF e = "v2" /\ c.register
         THEN [NoMetadata EXCEPT !["experiment"] = "smartspim"]
         ELSE NoMetadata,
     run_keys |-> {},
     capture_keys |-> {}]

InitWait ==
    /\ entry = "wait"
    /\ cfg \in WaitConfigs
    /\ pc = "wait"

InitV1 ==
    /\ entry = "v1"
    /\ cfg = V1NoConfig
    /\ pc = "v1_register"

InitV2 ==
    /\ entry = "v2"
    /\ cfg \in V2Configs
    /\ pc = "v2_run_job"

\* a call of add_data_level_metadata on any tag list and metadata dict
InitTags ==
    /\ entry = "tags"
    /\ cfg = V1NoConfig
    /\ pc = "tags"
    /\ stage = "none"
    /\ log = << >>
    /\ err = NoError
    /\ ret = NoResponse
    /\ wait = NoWait
    /\ poll = NoPoll
    /\ resp = NoResponses
    /\ data_assets = << >>
    /\ check = NoCheck
    /\ request = NoRequest
    /\ config = InitialConfig(entry, cfg)
    /\ invocation = 1
    /\ meta \in {[NoMeta EXCEPT !.tags = t, !.custom_metadata = m] :
                    t \in TagLists, m \in MetadataDicts}

NextTags == ApplyDataLevel

SpecTags == InitTags /\ [][NextTags]_vars

\* no job is running
NoJob ==
    /\ cfg = V1NoConfig
    /\ stage = "none"
    /\ log = << >>
    /\ err = NoError
    /\ ret = NoResponse
    /\ wait = NoWait
    /\ poll = NoPoll
    /\ resp = NoResponses
    /\ data_assets = << >>
    /\ check = NoCheck
    /\ request = NoRequest
    /\ config = InitialConfig(entry, cfg)
    /\ invocation = 1

\* the construction of a config model from any field values
InitConfigs ==
    /\ entry = "config"
    /\ pc = "config"
    /\ NoJob
    /\ meta \in {Unvalidated(c) : c \in ConfigInputs}

NextConfigs == ConstructConfig

SpecConfigs == InitConfigs /\ [][NextConfigs]_vars

\* a call of update_tags on an APIHandler
InitUpdate ==
    /\ entry = "update_tags"
    /\ pc = "update_tags"
    /\ NoJob
    /\ meta \in {[input |-> u, idx |-> 1, mapped |-> << >>, calls |-> << >>] :
                    u \in UpdateInputs}

NextUpdate ==
    \/ UpdateTagsStep
    \/ UpdateTagsReturn

SpecUpdate == InitUpdate /\ [][NextUpdate]_vars

Init ==
    /\ (InitWait \/ InitV1 \/ InitV2)
    /\ stage = "none"
    /\ log = << >>
    /\ err = NoError
    /\ ret = NoResponse
    /\ wait = NoWait
    /\ poll = NoPoll
    /\ resp = NoResponses
    /\ data_assets = << >>
    /\ check = NoCheck
    /\ request = NoRequest
    /\ config = InitialConfig(entry, cfg)
    /\ invocation = 1
    /\ meta = NoMeta

\* the caller invokes the job again: the same CodeOceanJob object and config
\* objects (v2), the same default dicts of run and register_and_run (v1);
\* the locals of the invocation start afresh
Reinvoke ==
    /\ entry \in {"v1", "v2"}
    /\ pc \in {"done", "failed"}
    /\ invocation < MaxInvocations
    /\ invocation' = invocation + 1
    /\ pc' = IF entry = "v1" THEN "v1_register" ELSE "v2_run_job"
    /\ cfg' = IF entry = "v1" THEN V1NoConfig ELSE cfg
    /\ stage' = "none"
    /\ log' = << >>
    /\ err' = NoError
    /\ ret' = NoResponse
    /\ wait' = NoWait
    /\ poll' = NoPoll
    /\ resp' = NoResponses
    /\ data_assets' = << >>
    /\ check' = NoCheck
    /\ request' = NoRequest
    /\ UNCHANGED <<entry, config, meta>>

Next ==
    \/ Wait
    \/ V1Next
    \/ V2Next

Spec == Init /\ [][Next]_vars

\* a job that the caller may invoke again
InitRepeat == Init /\ entry \in {"v1", "v2"}

NextRepeat ==
    \/ V1Next
    \/ V2Next
    \/ Reinvoke

SpecRepeat == InitRepeat /\ [][NextRepeat]_vars

(* ============================== claims ================================= *)
JobEntry == entry \in {"v1", "v2"}
Terminated == pc \in {"done", "failed"}

\* positions of the log that hold a call op of stage st
CallsIn(op, st) == {i \in 1..Len(log) : log[i].op = op /\ log[i].stage = st}

\* the run stage has submitted nothing and has not slept
NothingSubmitted ==
    /\ CountIn("run_capsule", "run") = 0
    /\ CountIn("get_computation", "run") = 0
    /\ CountIn("sleep", "run") = 0

\* the existence check of the run stage has just received `response`
Checked == stage = "run" /\ check.response.kind = "data_asset"

C2_RetrievalErrorFailsBeforeSubmit ==
    (entry = "v2" /\ Checked /\ check.response.status_code \notin {200, 404})
        => /\ pc = "failed"
           /\ err.type = "ConnectionError"
           /\ err.stage = "run"
           /\ err.id = check.response.id
           /\ err.id = data_assets[check.idx].id
           /\ NothingSubmitted

C2_Witness ==
    /\ entry = "v2"
    /\ Checked /\ check.response.status_code = 500
    /\ err.type = "ConnectionError"
    /\ Len(log) > 0 /\ log[Len(log)].op = "get_data_asset"

\* C3: a registration request with an AWS source and
\* keep_on_external_storage = FALSE fails with a configuration error and
\* issues no remote call at all.  (Once the request has reached the method:
\* in codeocean_job_v2.py the request is built one step before.)
C3_ExternalStorageRejected ==
    (/\ stage = "register"
     /\ request.source = "aws"
     /\ ~request.keep_on_external_storage
     /\ pc # "v2_create")
        => /\ pc = "failed"
           /\ err.type = "AssertionError"
           /\ Len(log) = 0

\* positions of the log whose remote call was answered with a failure;
\* a get_computation that reports a state is an answered call
FailedCalls ==
    {i \in 1..Len(log) :
        /\ log[i].op \in {"create_data_asset", "run_capsule",
                          "get_data_asset", "update_permissions"}
        /\ ~log[i].ok}

\* register, run and capture are all configured, and validly so
FullJob ==
    IF entry = "v2"
    THEN /\ cfg.register /\ cfg.keep_on_external_storage
         /\ cfg.process
         /\ cfg.capture # "none"
    ELSE /\ entry = "v1"
         /\ cfg.ids \in {"capsule", "pipeline"}
         /\ (pc = "done" => cfg.capture_results)

\* the three mutations happened once each, in the order of the stages
MutationsInOrder ==
    /\ CountIn("create_data_asset", "register") = 1
    /\ Count("run_capsule") = 1
    /\ CountIn("create_data_asset", "capture") = 1
    /\ \A i \in CallsIn("create_data_asset", "register") :
       \A j \in CallsIn("run_capsule", "run") :
       \A k \in CallsIn("create_data_asset", "capture") : i < j /\ j < k

\* C4: a job with register, run and capture configured whose remote calls
\* all succeed ends by returning three non-null responses, after exactly one
\* create_data_asset (register), one run_capsule and one create_data_asset
\* (capture), in that order.
C4_FullJobInOrder ==
    (FullJob /\ Terminated /\ FailedCalls = {})
        => /\ pc = "done"
           /\ MutationsInOrder
           /\ ret = resp
           /\ \A st \in {"register", "run", "capture"} :
                ret[st].kind # "none"

\* the position of a stage in the job
Rank(st) ==
    IF st = "register" THEN 1
    ELSE IF st = "run" THEN 2
    ELSE IF st = "capture" THEN 3
    ELSE 0

\* positions of the log whose mutation (creation, submission) was answered
\* with a failure
FailedMutations ==
    {i \in 1..Len(log) :
        log[i].op \in {"create_data_asset", "run_capsule"} /\ ~log[i].ok}

\* C5: once a stage of a job has failed (it raised, or its creation or
\* submission was answered with a failure), no remote call of a later stage
\* is issued: the job has ended in the error, or ends in it at the return of
\* the stage, and every call made belongs to the failed stage or to an
\* earlier one.
C5_FailureStopsLaterStages ==
    JobEntry =>
        /\ (err.type # "none") =>
              /\ pc = "failed"
              /\ \A i \in 1..Len(log) : Rank(log[i].stage) <= Rank(err.stage)
              /\ (err.stage = "register" => Count("run_capsule") = 0)
              /\ (err.stage \in {"register", "run"}
                     => CountIn("create_data_asset", "capture") = 0)
        /\ \A i \in FailedMutations :
              /\ pc \in {"failed", "v1_register_return"}
              /\ \A j \in i..Len(log) : log[j].stage = log[i].stage

\* a run stage that failed after the registration, in a job that was to
\* capture the result
C5_Witness ==
    /\ entry = "v2" /\ cfg.capture # "none"
    /\ pc = "failed" /\ err.stage = "run"
    /\ CountIn("create_data_asset", "register") = 1
    /\ Count("run_capsule") = 1
    /\ FailedMutations # {}

\* C6: in one job execution create_data_asset is called at most once per
\* stage, run_capsule at most once and update_permissions at most once per
\* stage; only sleep, get_data_asset and get_computation occur repeatedly.
C6_MutationsAtMostOnce ==
    JobEntry =>
        /\ Count("run_capsule") <= 1
        /\ CountIn("run_capsule", "run") = Count("run_capsule")
        /\ \A st \in {"register", "run", "capture"} :
            /\ CountIn("create_data_asset", st) <= (IF st = "run" THEN 0 ELSE 1)
            /\ CountIn("update_permissions", st) <= (IF st = "run" THEN 0 ELSE 1)

\* both status checks repeated, around mutations made once each
C6_Witness ==
    /\ entry = "v1"
    /\ CountIn("get_data_asset", "capture") >= 2
    /\ CountIn("get_data_asset", "run") >= 2
    /\ CountIn("get_computation", "run") >= 2
    /\ CountIn("create_data_asset", "register") = 1
    /\ CountIn("create_data_asset", "capture") = 1
    /\ Count("run_capsule") = 1

\* the status loop of run_capsule runs with a pause interval and no timeout
UnlimitedPoll ==
    /\ entry = "v1"
    /\ stage \in {"run", "capture"}
    /\ cfg.pause_interval # 0
    /\ cfg.timeout_seconds = None

\* C7: in the status loop of run_capsule (codeocean_job.py) with a pause
\* interval and no timeout, every get_computation call directly follows one
\* sleep of the pause interval, a call that reports "completed" is the last
\* one and ends the loop, and the loop ends on nothing else: when
\* "completed" is first reported by the N-th call, the loop has made exactly
\* N sleeps and N get_computation calls and run_capsule returns.
C7_PollUntilCompleted ==
    UnlimitedPoll =>
        LET gets == CallsIn("get_computation", "run")
        IN  /\ \A i \in gets :
                /\ i > 1
                /\ log[i-1] = Call("sleep", "run", cfg.pause_interval, TRUE)
                /\ log[i].ok =>
                     /\ \A j \in gets : j <= i
                     /\ pc # "v1_poll"
            /\ CountIn("sleep", "run") = Cardinality(gets)
            /\ Cardinality(gets) = poll.num_checks
            /\ (pc \notin {"v1_check", "v1_submit", "v1_poll", "failed"}
                   \/ stage = "capture")
                  => /\ poll.state = "completed"
                     /\ \E i \in gets : log[i].ok
            /\ (poll.num_checks > 0 /\ poll.state # "completed")
                  => pc = "v1_poll"

\* "completed" first reported by the third call
C7_Witness ==
    /\ UnlimitedPoll
    /\ pc = "v1_run_capsule_return"
    /\ poll.num_checks = 3 /\ poll.state = "completed"
    /\ CountIn("sleep", "run") = 3

\* ceil(a / b) for a >= 0, b > 0
Ceil(a, b) == (a + b - 1) \div b

\* sleep-then-check rounds of the last wait_for_data_availability
WaitRounds == Len(wait.calls) \div 2

\* wait_for_data_availability has returned without ever seeing a 200
WaitNeverDone ==
    wait.response.kind # "none" /\ wait.response.status_code # 200

\* the status loop of run_capsule runs with a timeout and has not seen
\* "completed"
PollNeverDone ==
    /\ entry = "v1"
    /\ stage \in {"run", "capture"}
    /\ cfg.pause_interval # 0
    /\ cfg.timeout_seconds # None
    /\ \A i \in CallsIn("get_computation", "run") : ~log[i].ok

\* C8 as stated: a polling loop whose check never signals done performs at
\* most ceil(T / I) checks.
C8_AtMostCeilChecks ==
    /\ WaitNeverDone =>
          WaitRounds <= Ceil(wait.timeout_seconds, wait.pause_interval)
    /\ PollNeverDone =>
          CountIn("get_computation", "run")
              <= Ceil(cfg.timeout_seconds, cfg.pause_interval)

\* C8, amended: when the check never signals done, wait_for_data_availability
\* performs at most floor(T / I) + 2 checks and returns the last response;
\* the status loop of run_capsule performs at most max(1, ceil(T / I))
\* checks, and has ended once it has made that many.
C8_BoundedChecks ==
    /\ WaitNeverDone =>
          /\ WaitRounds <= wait.timeout_seconds \div wait.pause_interval + 2
          /\ wait.response.serial = WaitRounds
    /\ PollNeverDone =>
          LET most == IF cfg.timeout_seconds = 0 THEN 1
                      ELSE Ceil(cfg.timeout_seconds, cfg.pause_interval)
              made == CountIn("get_computation", "run")
          IN  /\ made <= most
              /\ made = poll.num_checks
              /\ (made = most /\ made < MaxPolls) => pc # "v1_poll"
              /\ (made < most /\ made > 0) => pc = "v1_poll"

\* both loops timed out in one job: the wait of the capture stage after 32
\* checks, the status loop after its second check
C8_Witness ==
    /\ PollNeverDone
    /\ cfg.timeout_seconds = 3 /\ cfg.pause_interval = 2
    /\ poll.num_checks = 2
    /\ stage = "capture"
    /\ WaitNeverDone
    /\ WaitRounds = 32

\* C9: when every get_data_asset response is non-200,
\* wait_for_data_availability performs exactly floor(timeout_seconds /
\* pause_interval) + 2 rounds of one sleep followed by one get_data_asset
\* (32 with the defaults 300 and 10), then returns the last response as it
\* was received, and raises nothing.
C9_TimeoutRounds ==
    WaitNeverDone =>
        /\ WaitRounds = wait.timeout_seconds \div wait.pause_interval + 2
        /\ \A r \in 1..WaitRounds :
            /\ wait.calls[2*r - 1].op = "sleep"
            /\ wait.calls[2*r - 1].arg = wait.pause_interval
            /\ wait.calls[2*r].op = "get_data_asset"
            /\ wait.calls[2*r].arg = wait.data_asset_id
            /\ ~wait.calls[2*r].ok
        /\ Len(wait.calls) = 2 * WaitRounds
        /\ wait.response.serial = WaitRounds
        /\ wait.response.id = wait.data_asset_id
        /\ wait.response.message # "none"
        /\ (wait.timeout_seconds = DefaultTimeoutSeconds
              /\ wait.pause_interval = DefaultPauseInterval)
                 => WaitRounds = 32
        /\ entry = "wait" =>
            /\ pc = "done"
            /\ ret = wait.response
            /\ err = NoError
            /\ log = wait.calls

\* the method called on its own times out after floor(3 / 2) + 2 = 3 rounds
C9_Witness ==
    /\ entry = "wait"
    /\ WaitNeverDone
    /\ wait.timeout_seconds = 3 /\ wait.pause_interval = 2
    /\ WaitRounds = 3
    /\ ret.status_code = 500

\* C10: wait_for_data_availability sleeps pause_interval before its first
\* get_data_asset call; when the first response is a 200 it returns that
\* response after exactly one sleep and one get_data_asset call.
C10_SleepBeforeFirstCheck ==
    wait.response.kind # "none" =>
        /\ Len(wait.calls) >= 2
        /\ wait.calls[1].op = "sleep"
        /\ wait.calls[1].arg = wait.pause_interval
        /\ wait.calls[2].op = "get_data_asset"
        /\ wait.calls[2].arg = wait.data_asset_id
        /\ wait.calls[2].ok =>
            /\ Len(wait.calls) = 2
            /\ wait.response.status_code = 200
            /\ wait.response.serial = 1
            /\ entry = "wait" =>
                /\ pc = "done"
                /\ ret = wait.response
                /\ log = wait.calls

\* the first response is a 200
C10_Witness ==
    /\ entry = "wait"
    /\ pc = "done"
    /\ Len(log) = 2
    /\ log[2].op = "get_data_asset" /\ log[2].ok
    /\ ret.status_code = 200

\* run_capsule of codeocean_job.py has returned to run
V1RunCapsuleReturned ==
    /\ entry = "v1"
    /\ resp.run.id # NoId
    /\ pc \notin {"v1_poll", "v1_run_capsule_return"}

\* the pause interval is 400, the first poll reported "initializing" and the
\* second "completed"
Scenario2 ==
    /\ V1RunCapsuleReturned
    /\ cfg.pause_interval = ScenarioPauseInterval
    /\ poll.states = <<"initializing", "completed">>

\* the run stage slept exactly twice, the pause interval each time
SleptTwice ==
    /\ CountIn("sleep", "run") = 2
    /\ CountIn("get_computation", "run") = 2
    /\ \A i \in CallsIn("sleep", "run") : log[i].arg = cfg.pause_interval

C12_ReturnsRunCapsuleResponse ==
    V1RunCapsuleReturned =>
        /\ resp.run = SubmitResponse("computation",
                                     [status_code |-> 200, has_id |-> TRUE],
                                     ComputationId, "initializing")
        /\ (pc = "done" => ret.run = resp.run)
        /\ (Polls(cfg.pause_interval) => poll.num_checks > 0)

\* returned after the polls reported "running", "failed" and "completed"
C12_Witness ==
    /\ V1RunCapsuleReturned
    /\ poll.states = <<"running", "failed", "completed">>
    /\ pc = "done"
    /\ ret.run.state = "initializing"

\* the pause interval the run stage of the job has been given
RunPauseInterval ==
    IF entry = "v1" THEN cfg.pause_interval
    ELSE cfg.process_poll_interval_seconds

\* C13: with a falsy pause interval (None or 0, both 0 here) the run stage
\* returns right after the run_capsule submission: it never sleeps and never
\* calls get_computation, and the response it returns carries the
\* computation id.
C13_FireAndForget ==
    (JobEntry /\ RunPauseInterval = 0) =>
        /\ CountIn("sleep", "run") = 0
        /\ CountIn("get_computation", "run") = 0
        /\ poll = NoPoll
        /\ pc \notin {"v1_poll", "v2_poll"}
        /\ \A i \in CallsIn("run_capsule", "run") :
              log[i].ok =>
                 /\ resp.run.id = ComputationId
                 /\ \A j \in (i+1)..Len(log) : log[j].stage = "capture"
                 /\ (pc = "done" => ret.run.id = ComputationId)

\* a job of codeocean_job_v2.py that returned without polling
C13_Witness ==
    /\ entry = "v2"
    /\ RunPauseInterval = 0
    /\ pc = "done"
    /\ ret.run.id = ComputationId
    /\ Count("run_capsule") = 1

\* C14: once get_computation has reported the terminal state "failed", the
\* status loop of run_capsule stops: no further poll follows, even when
\* timeout_seconds is unset.
C14_FailedEndsPolling ==
    entry = "v1" =>
        \A k \in 1..Len(poll.states) :
            poll.states[k] = "failed" => k = Len(poll.states)

\* C15: the capture stage's create_data_asset is issued only after a poll of
\* the computation has reported "completed": never after a timeout exit and
\* never without a poll.
C15_CaptureOnlyCompleted ==
    (JobEntry /\ CountIn("create_data_asset", "capture") > 0) =>
        /\ poll.state = "completed"
        /\ \E i \in CallsIn("get_computation", "run") : log[i].ok

\* C16: a run_capsule response without an id makes the run stage fail with
\* an error carrying the response's status code and body; get_computation is
\* never polled and the capture stage creates nothing.
C16_SubmissionWithoutId ==
    (JobEntry /\ \E i \in CallsIn("run_capsule", "run") : ~log[i].ok) =>
        /\ pc = "failed"
        /\ err.stage = "run"
        /\ err.status_code = resp.run.status_code
        /\ err.body = ResponseJson(resp.run)
        /\ CountIn("get_computation", "run") = 0
        /\ CountIn("create_data_asset", "capture") = 0

\* C17: a create_data_asset response without an id makes the creation fail,
\* in the register stage and in the capture stage, with an error carrying
\* the asset name, the status code and the body, and neither the
\* availability wait nor update_permissions is invoked.
C17_CreationWithoutId ==
    JobEntry =>
        \A st \in {"register", "capture"} :
            (\E i \in CallsIn("create_data_asset", st) : ~log[i].ok) =>
                /\ pc = "failed"
                /\ err.stage = st
                /\ err.name = request.name
                /\ err.status_code = resp[st].status_code
                /\ err.body = ResponseJson(resp[st])
                /\ CountIn("get_data_asset", st) = 0
                /\ CountIn("sleep", st) = 0
                /\ CountIn("update_permissions", st) = 0

\* the availability wait of a freshly created asset ended on a non-200
WaitFailedInJob == JobEntry /\ WaitNeverDone

\* C18: when the availability wait for a freshly created asset ends with a
\* non-200 response, the creation fails with a FileNotFoundError naming the
\* created asset's id, and update_permissions is never called for it.
C18_UnavailableAssetFails ==
    WaitFailedInJob =>
        /\ pc = "failed"
        /\ err.type = "FileNotFoundError"
        /\ err.stage = stage
        /\ stage \in {"register", "capture"}
        /\ err.id = CreatedId(stage)
        /\ err.id = resp[stage].id
        /\ err.id = wait.data_asset_id
        /\ CountIn("update_permissions", stage) = 0
        /\ log[Len(log)].op = "get_data_asset"

\* the wait of the register stage ended on a 500
C18_Witness ==
    /\ WaitFailedInJob
    /\ stage = "register"
    /\ wait.response.status_code = 500
    /\ err.id = RegisteredId

\* the job was told not to make its assets viewable to everyone
NotViewable ==
    IF entry = "v1" THEN ~cfg.viewable_to_everyone
    ELSE ~cfg.assets_viewable_to_everyone

\* C19: when registration is not viewable to everyone and the creation
\* succeeds, register returns the creation response, which carries the
\* created id, and neither update_permissions nor the availability wait is
\* invoked for the registered asset.
C19_PrivateRegistration ==
    (/\ JobEntry
     /\ NotViewable
     /\ \E i \in CallsIn("create_data_asset", "register") : log[i].ok) =>
        /\ CountIn("update_permissions", "register") = 0
        /\ CountIn("get_data_asset", "register") = 0
        /\ CountIn("sleep", "register") = 0
        /\ resp.register =
              SubmitResponse("data_asset",
                             [status_code |-> 200, has_id |-> TRUE],
                             RegisteredId, "none")
        /\ err.stage # "register"
        /\ pc # "v2_wait"
        /\ (pc = "done" => ret.register = resp.register)

\* a private registration of codeocean_job_v2.py has returned to run_job
C19_Witness ==
    /\ entry = "v2"
    /\ NotViewable
    /\ resp.register.id = RegisteredId
    /\ stage = "run"
    /\ Len(log) > 1

\* C20: when update_permissions answers with a failure, the creation fails:
\* the failure reaches the caller instead of the creation response.
C20_PermissionFailureSurfaces ==
    JobEntry =>
        \A i \in 1..Len(log) :
            (log[i].op = "update_permissions" /\ ~log[i].ok) =>
                /\ pc = "failed"
                /\ err.stage = log[i].stage

(* ------------------------ data level tags (C25-C27) --------------------- *)
\* the tags and metadata the i-th application was given
MetaInput(i) ==
    IF i = 1
    THEN [tags |-> meta.tags, custom_metadata |-> meta.custom_metadata]
    ELSE meta.outs[i - 1]

\* how often tag t occurs in the list tags
Occurrences(t, tags) == Cardinality({i \in DOMAIN tags : tags[i] = t})

\* C25: add_data_level_metadata with the derived level returns tags that
\* contain "derived", do not contain "raw" and contain every other input tag
\* exactly once, and metadata whose "data level" is "derived" and whose
\* other keys keep their values.
C25_DerivedTagsAndMetadata ==
    \A i \in DOMAIN meta.outs :
        meta.levels[i] = "derived" =>
            /\ "derived" \in TagSet(meta.outs[i].tags)
            /\ "raw" \notin TagSet(meta.outs[i].tags)
            /\ \A t \in TagSet(MetaInput(i).tags) \ {"raw", "derived"} :
                  Occurrences(t, meta.outs[i].tags) = 1
            /\ meta.outs[i].custom_metadata["data level"] = "derived"
            /\ \A k \in MetadataKeys \ {"data level"} :
                  meta.outs[i].custom_metadata[k] =
                      MetaInput(i).custom_metadata[k]

\* the derived level was applied to tags holding "raw" and another tag, and
\* to metadata holding another key and a raw data level
C25_Witness ==
    /\ Len(meta.outs) >= 1
    /\ meta.levels[1] = "derived"
    /\ TagSet(meta.tags) = {"raw", "ecephys"}
    /\ meta.custom_metadata["experiment"] = "smartspim"
    /\ meta.custom_metadata["data level"] = "raw"
    /\ TagSet(meta.outs[1].tags) = {"derived", "ecephys"}

\* C26: applying the derived level twice gives the same set of tags and the
\* same metadata as applying it once.
C26_DerivedIdempotent ==
    \A i \in DOMAIN meta.outs :
        (i > 1 /\ meta.levels[i - 1] = "derived"
               /\ meta.levels[i] = "derived") =>
            /\ TagSet(meta.outs[i].tags) = TagSet(meta.outs[i - 1].tags)
            /\ meta.outs[i].custom_metadata =
                   meta.outs[i - 1].custom_metadata

\* the derived level was applied twice in a row to tags that held "raw" twice
C26_Witness ==
    /\ Len(meta.outs) = 2
    /\ meta.levels = <<"derived", "derived">>
    /\ meta.tags = <<"raw", "raw">>
    /\ meta.outs[2].tags = <<"derived">>

\* C27: whatever levels are applied, in whatever order, the tags returned
\* never hold both "raw" and "derived".
C27_LevelsExclusive ==
    \A i \in DOMAIN meta.outs :
        ~({"raw", "derived"} \subseteq TagSet(meta.outs[i].tags))

(* --------------------- requests of a job (C21-C24) ---------------------- *)
\* the data assets the caller configured for the run of this invocation
OwnAssets ==
    IF entry = "v2" THEN UserAssets(cfg.n_assets)
    ELSE UserAssets(cfg.n_additional)

\* asset a is one of the data assets of the submitted run request
InRunRequest(a) == \E i \in DOMAIN data_assets : data_assets[i] = a

C22_CaptureSourceIsComputation ==
    \A i \in CallsIn("create_data_asset", "capture") :
        /\ resp.run.kind = "computation"
        /\ resp.run.id = ComputationId
        /\ request.source = "computation"
        /\ request.source_id = resp.run.id
        /\ log[i].arg = resp.run.id

\* a job has submitted its capture request
C22_Witness ==
    /\ entry = "v2"
    /\ CountIn("create_data_asset", "capture") = 1
    /\ request.source_id = ComputationId
    /\ pc = "done"

\* the capture stage is asked for, and no name for the captured asset can be
\* worked out from the configuration
UnresolvableName ==
    IF entry = "v2"
    THEN /\ cfg.process
         /\ cfg.capture = "CaptureResultConfig"
         /\ V2InputAssetName(cfg) = "none"
    ELSE /\ entry = "v1"
         /\ cfg.capture_results
         /\ ~cfg.asset_name

\* C23: a capture asset name that cannot be resolved is rejected before any
\* remote call of the job: no create_data_asset, get_data_asset, run_capsule
\* or get_computation call is issued.
C23_UnresolvableNameBeforeCalls ==
    UnresolvableName =>
        /\ Count("create_data_asset") = 0
        /\ Count("get_data_asset") = 0
        /\ Count("run_capsule") = 0
        /\ Count("get_computation") = 0

\* the name an explicit capture request carries
ExplicitAssetName == "some_asset"

\* C24: the captured asset is named by the explicit name if there is one,
\* else <input name>_<process name>_<capture time> with the configured input
\* name or else the registered asset's name; with no name at all the capture
\* fails with a configuration error and create_data_asset is not called.
C24_CapturedAssetName ==
    (JobEntry /\ stage = "capture") =>
        IF entry = "v1" \/ cfg.capture = "CreateDataAssetRequest"
        THEN /\ request.name = ExplicitAssetName
             /\ err.type # "NameError"
        ELSE IF cfg.input_data_asset_name
        THEN request.name = "given_processed_time"
        ELSE IF cfg.register
        THEN request.name = "input_processed_time"
        ELSE /\ pc = "failed"
             /\ err.type = "ValueError"
             /\ CountIn("create_data_asset", "capture") = 0

(* ---------------------- the caller's objects (C28) ---------------------- *)
\* C28: the configuration is only read: when the job has returned or failed,
\* the run config's data_assets, the register request's tags and metadata
\* and the capture config are what they were before the call.
C28_ConfigReadOnly ==
    (JobEntry /\ Terminated) => config = InitialConfig(entry, cfg)

(* ------------------- capsule_id and pipeline_id (C30) ------------------- *)
\* C30: a run request with both capsule_id and pipeline_id, or with neither,
\* is rejected with a configuration error before any remote call.
C30_IdsRejectedBeforeCalls ==
    (entry = "v1" /\ stage = "run" /\ V1IdsRejected(cfg.ids)) =>
        /\ pc = "failed"
        /\ err.type = "AssertionError"
        /\ Len(log) = 0

(* ---------------------- successive invocations (C29) -------------------- *)
\* how many data assets this invocation's own inputs and responses give to
\* the run request
OwnRunAssets ==
    Len(OwnAssets) + (IF resp.register.id # NoId THEN 1 ELSE 0)

\* C29: a second invocation is independent of the first: its run request
\* holds only the data assets of its own inputs and responses, and it does
\* not fail because of what the first invocation left behind.
C29_InvocationsIndependent ==
    invocation > 1 =>
        /\ CountIn("run_capsule", "run") >= 1 =>
                Len(data_assets) = OwnRunAssets
        /\ ~(err.type = "AssertionError" /\ err.name = "computation_id")

(* ------------------ the status loop with a timeout (C34-C35) ------------ *)
\* run_capsule (codeocean_job.py) polls with a pause interval and a timeout
LimitedPoll ==
    /\ entry = "v1"
    /\ stage \in {"run", "capture"}
    /\ cfg.pause_interval # 0
    /\ cfg.timeout_seconds # None

\* the n-th check saw "completed" or reached the timeout
ExitCheck(n) ==
    \/ poll.states[n] = "completed"
    \/ cfg.pause_interval * n >= cfg.timeout_seconds

\* C34: with pause interval I and timeout T the status loop of run_capsule
\* ends exactly at the first check n >= 1 whose state is "completed" or for
\* which I * n >= T: not at an earlier check, and with no sleep and no
\* get_computation call after it.
C34_ExitAtFirstCheck ==
    LimitedPoll =>
        /\ Len(poll.states) = poll.num_checks
        /\ CountIn("get_computation", "run") = poll.num_checks
        /\ CountIn("sleep", "run") = poll.num_checks
        /\ \A k \in 1..(poll.num_checks - 1) : ~ExitCheck(k)
        /\ poll.num_checks > 0 =>
              (ExitCheck(poll.num_checks) <=> pc # "v1_poll")
        /\ poll.num_checks = 0 =>
              pc \in {"v1_check", "v1_submit", "v1_poll", "failed"}

\* I = 1, T = 3: the second check saw "completed", before the timeout, and
\* the loop ended there
C34_Witness ==
    /\ LimitedPoll
    /\ cfg.pause_interval = 1 /\ cfg.timeout_seconds = 3
    /\ poll.num_checks = 2
    /\ poll.states[1] # "completed" /\ poll.states[2] = "completed"
    /\ pc = "v1_run_capsule_return"

\* the loop has ended on the timeout, the computation not completed
TimedOut ==
    /\ LimitedPoll
    /\ poll.num_checks > 0
    /\ poll.state # "completed"
    /\ pc # "v1_poll"

\* C35: when the status loop ends on the timeout with the computation not
\* completed, the run step raises nothing, makes no further remote call
\* (nothing cancels the computation) and returns the run_capsule response.
C35_TimeoutReturnsNormally ==
    TimedOut =>
        /\ err.stage # "run"
        /\ pc = "failed" => err.stage = "capture"
        /\ resp.run.kind = "computation" /\ resp.run.id = ComputationId
        /\ \A i \in DOMAIN log :
              log[i].stage = "run" =>
                  \E j \in CallsIn("get_computation", "run") : i <= j
        /\ pc = "done" => ret.run = resp.run

\* I = 2, T = 3: the loop timed out at its second check on a computation
\* that was still running, and the job returned without capturing
C35_Witness ==
    /\ TimedOut
    /\ cfg.pause_interval = 2 /\ cfg.timeout_seconds = 3
    /\ poll.num_checks = 2
    /\ ~cfg.capture_results
    /\ pc = "done"
    /\ ret.run.id = ComputationId

(* ------------------------ check_data_assets (C37) ----------------------- *)
\* C37: check_data_assets examines the data assets in list order and stops
\* at the first failure: the error names the first asset of the list whose
\* get_data_asset response is not 200, and no later asset is looked up.
C37_StopsAtFirstFailure ==
    (entry = "v2" /\ stage \in {"run", "capture"}) =>
        LET gets == CallsIn("get_data_asset", "run")
        IN  /\ Cardinality(gets) <= Len(data_assets)
            /\ \A i \in gets :
                 LET k == Cardinality({j \in gets : j <= i})
                 IN  /\ log[i].arg = data_assets[k].id
                     /\ ~log[i].ok =>
                           /\ \A j \in gets : j <= i
                           /\ \A j \in gets : j < i => log[j].ok
                           /\ pc = "failed"
                           /\ err.stage = "run"
                           /\ err.type \in {"FileNotFoundError",
                                            "ConnectionError"}
                           /\ err.id = data_assets[k].id

\* of two data assets the first was reported missing; the second was never
\* looked up
C37_Witness ==
    /\ entry = "v2"
    /\ Len(data_assets) = 2
    /\ Cardinality(CallsIn("get_data_asset", "run")) = 1
    /\ pc = "failed"
    /\ err.id = data_assets[1].id

(* ------------------ process_data and capture_result (C38-C39) ----------- *)
\* C38: in process_data (codeocean_job_v2.py) with a poll interval, a poll
\* that reports a state other than "completed" raises nothing and the
\* polling goes on.
C38_NonCompletedPollContinues ==
    (entry = "v2" /\ stage = "run" /\ poll.num_checks > 0
                  /\ poll.state # "completed") =>
        /\ err = NoError
        /\ pc = "v2_poll"

\* C39: in capture_result (codeocean_job_v2.py) with a CreateDataAssetRequest
\* as capture config, nothing is raised before the remote call: the request
\* keeps its name, gets the computation as its source and is given to
\* create_data_asset.
C39_ExplicitRequestCaptured ==
    (entry = "v2" /\ stage = "capture"
                  /\ cfg.capture = "CreateDataAssetRequest") =>
        /\ pc # "failed" \/ CountIn("create_data_asset", "capture") = 1
        /\ request.name = ExplicitAssetName
        /\ request.source = "computation"
        /\ request.source_id = resp.run.id

(* ---------------- registration in register and capture (C36) ------------ *)
RemoteOps == {"create_data_asset", "get_data_asset", "update_permissions"}

\* the remote calls of stage st in order, each with how it was answered
StageCalls(st) ==
    LET calls == SelectSeq(log, LAMBDA c : c.stage = st /\ c.op \in RemoteOps)
    IN  [i \in DOMAIN calls |-> [op |-> calls[i].op, ok |-> calls[i].ok]]

IsPrefix(a, b) == Len(a) <= Len(b) /\ SubSeq(b, 1, Len(a)) = a

RegisterViewable ==
    IF entry = "v1" THEN cfg.viewable_to_everyone
    ELSE cfg.assets_viewable_to_everyone

CaptureViewable ==
    IF entry = "v1" THEN cfg.capture_viewable
    ELSE cfg.assets_viewable_to_everyone

\* both stages have submitted a creation, the capture stage has ended, the
\* viewable setting was the same and the remote answered both alike as far
\* as both asked
SameRegistrationInputs ==
    /\ JobEntry
    /\ Terminated
    /\ stage = "capture"
    /\ CountIn("create_data_asset", "register") = 1
    /\ CountIn("create_data_asset", "capture") = 1
    /\ RegisterViewable = CaptureViewable
    /\ \/ IsPrefix(StageCalls("register"), StageCalls("capture"))
       \/ IsPrefix(StageCalls("capture"), StageCalls("register"))

\* C36: the capture stage creates its asset as the register stage does: with
\* the same answers and the same viewable setting both make the same remote
\* calls (the wait and update_permissions only when viewable to everyone)
\* and fail in the same cases.
C36_SameRegistrationBehaviour ==
    SameRegistrationInputs =>
        /\ StageCalls("capture") = StageCalls("register")
        /\ pc = "done"

(* ------------------------ the config models (C31) ----------------------- *)
\* C31: after the construction of a RegisterDataConfig or CaptureResultConfig
\* tags and custom_metadata are not None: an omitted or None value has become
\* the empty list or the empty dict, and a given value is kept.
C31_NeverNone ==
    (entry = "config" /\ meta.built) =>
        /\ ~meta.tags.none
        /\ ~meta.custom_metadata.none
        /\ meta.tags.value =
              (IF meta.input.tags.none THEN << >> ELSE meta.input.tags.value)
        /\ meta.custom_metadata.value =
              (IF meta.input.custom_metadata.none THEN NoMetadata
               ELSE meta.input.custom_metadata.value)

\* a CaptureResultConfig was constructed without tags and with a metadata
\* dict of its own
C31_Witness ==
    /\ entry = "config"
    /\ meta.built
    /\ meta.input.model = "CaptureResultConfig"
    /\ meta.input.tags.none
    /\ meta.tags = Some(<< >>)
    /\ ~meta.input.custom_metadata.none
    /\ meta.custom_metadata.value["experiment"] = "smartspim"

(* --------------------------- update_tags (C32-C33) ---------------------- *)
\* C32: with dryrun True update_tags never calls update_data_asset; with
\* dryrun False it calls it exactly once per data asset of the input, in
\* order, with that asset's id and its unchanged name.
C32_DryRunCallsNothing ==
    entry = "update_tags" =>
        IF meta.input.dryrun
        THEN meta.calls = << >>
        ELSE /\ Len(meta.calls) = meta.idx - 1
             /\ pc = "done" => Len(meta.calls) = Len(meta.input.data_assets)
             /\ \A i \in DOMAIN meta.calls :
                   /\ meta.calls[i].data_asset_id = meta.input.data_assets[i].id
                   /\ meta.calls[i].new_name = meta.input.data_assets[i].name

\* a dry run has gone through two data assets and returned
C32_Witness ==
    /\ entry = "update_tags"
    /\ pc = "done"
    /\ Len(meta.input.data_assets) = 2
    /\ meta.input.dryrun
    /\ meta.calls = << >>
    /\ Len(meta.mapped) = 2

\* the tags of an Optional list as a set
GivenTags(optional) ==
    IF optional.none THEN {}
    ELSE {optional.value[i] : i \in DOMAIN optional.value}

\* the tag that tag t is replaced by
Replaced(t) ==
    IF meta.input.tags_to_replace.none THEN t
    ELSE IF meta.input.tags_to_replace.value[t] = "absent" THEN t
    ELSE meta.input.tags_to_replace.value[t]

\* C33: for every data asset the new tags are { replace(t) : t in (tags minus
\* tags_to_remove) union tags_to_add }: removal first, then addition, then
\* replacement; an existing tag that is neither removed nor a key of
\* tags_to_replace is kept.  The list sent holds each new tag once.
C33_RemoveAddReplace ==
    entry = "update_tags" =>
        /\ \A i \in DOMAIN meta.mapped :
              LET tags == GivenTags(meta.input.data_assets[i].tags)
                  rm == GivenTags(meta.input.tags_to_remove)
                  ad == GivenTags(meta.input.tags_to_add)
              IN  /\ meta.mapped[i] = {Replaced(t) : t \in (tags \ rm) \cup ad}
                  /\ \A t \in tags :
                        (t \notin rm /\ Replaced(t) = t) => t \in meta.mapped[i]
        /\ \A i \in DOMAIN meta.calls :
              /\ TagSet(meta.calls[i].new_tags) = meta.mapped[i]
              /\ Len(meta.calls[i].new_tags) = Cardinality(meta.mapped[i])

\* "old" was both removed and added and then replaced by "new", on an asset
\* that carried "old" and "keep"
C33_Witness ==
    /\ entry = "update_tags"
    /\ ~meta.input.dryrun
    /\ meta.input.tags_to_remove = Some(<<"old">>)
    /\ meta.input.tags_to_add = Some(<<"old">>)
    /\ ~meta.input.tags_to_replace.none
    /\ meta.input.tags_to_replace.value["old"] = "new"
    /\ Len(meta.calls) >= 1
    /\ meta.input.data_assets[1].tags = Some(<<"old", "keep">>)
    /\ TagSet(meta.calls[1].new_tags) = {"new", "keep"}

====
